---- MODULE Spec2Model ----
(***************************************************************************)
(* The postMessage correlation protocol of the MCP-UI iframe helpers:      *)
(* sendMcpMessage, sendLinkMcpMessage, waitForRenderData.  One window      *)
(* (the iframe) with its set of registered 'message' listeners, the        *)
(* messages it posted to window.parent, and the promises of the calls.     *)
(***************************************************************************)
EXTENDS Integers, Sequences, FiniteSets, TLC

\* ------------------------------------------------------------------ bounds
\* number of Sender calls (sendMcpMessage + sendLinkMcpMessage) in one run
MaxCalls == 2
\* number of Sender calls in a run that draws replies from the larger value sets
MaxReplyCalls == 1
\* number of Sender calls a rendered route makes in one run
MaxSurfaceCalls == 2
\* number of renders of a route's component in one run
MaxRenders == 2
\* number of Sender calls in a run whose events come from several frames
MaxOriginCalls == 2
\* the ids of entries and of tags run from 1 to MaxId
MaxId == 2
Ids == 1 .. MaxId

\* ------------------------------------------------------- JavaScript values
\* A value is a record: its kind, a rendering of its validated content, and
\* whether an object carries keys that the schema does not name.
JsValue(kind, body, extra) == [kind |-> kind, body |-> body, extra |-> extra]

Undefined == JsValue("undefined", "", FALSE)
Null == JsValue("null", "", FALSE)
EmptyStr == JsValue("string", "", FALSE)
NotFound == JsValue("string", "not found", FALSE)
EmptyArray == JsValue("array", "", FALSE)
\* { structuredContent: { success: true }, content: [...] }
SuccessTrueExtra == JsValue("object", "structuredContent.success=true", TRUE)
\* { structuredContent: { success: false } }
SuccessFalse == JsValue("object", "structuredContent.success=false", FALSE)
\* { entry: {...}, debug: ... } and { entry: { id: 'x' } }
EntryExtra == JsValue("object", "entry", TRUE)
EntryBad == JsValue("object", "entry.id=string", FALSE)

NoParentError == JsValue("Error", "No parent frame available", FALSE)
ZodError == JsValue("ZodError", "invalid", FALSE)
TypeError == JsValue("TypeError", "", FALSE)

\* JavaScript truthiness, as `if (error)` evaluates it
Truthy(v) ==
    /\ v.kind \notin {"undefined", "null"}
    /\ ~(v.kind = "string" /\ v.body = "")

\* ------------------------------------------------------------ zod schemas
NoSchema == [name |-> "undefined", accepts |-> {}]
deleteEntrySchema ==
    [name |-> "deleteEntrySchema",
     accepts |-> {"structuredContent.success=true",
                  "structuredContent.success=false"}]
renderDataSchema == [name |-> "renderDataSchema", accepts |-> {"entry"}]

\* schema.safeParse(v): z.object accepts an object of the declared shape and
\* returns it without the keys the schema does not declare
SafeParse(schema, v) ==
    IF v.kind = "object" /\ v.body \in schema.accepts
    THEN [success |-> TRUE, data |-> [v EXCEPT !.extra = FALSE], error |-> Undefined]
    ELSE [success |-> FALSE, data |-> Undefined, error |-> ZodError]

\* ---------------------------------------------------------- inbound events
\* event.data of a 'message' event.  hasData = FALSE is event.data === null;
\* payload.present = FALSE is a message without a payload field.  origin is
\* event.origin, the frame that sent the message.
NoPayload ==
    [present |-> FALSE, response |-> Undefined, renderData |-> Undefined,
     error |-> Undefined]
ResponsePayloads(responses, errors) ==
    {[present |-> TRUE, response |-> r, renderData |-> Undefined, error |-> e] :
        r \in responses, e \in errors}
RenderDataPayloads(renderDatas, errors) ==
    {[present |-> TRUE, response |-> Undefined, renderData |-> r, error |-> e] :
        r \in renderDatas, e \in errors}

NullDataEvent ==
    [hasData |-> FALSE, type |-> "", messageId |-> 0, payload |-> NoPayload,
     origin |-> "host"]
Message(type, messageId, payload) ==
    [hasData |-> TRUE, type |-> type, messageId |-> messageId, payload |-> payload,
     origin |-> "host"]
\* the same message sent by another frame
From(origin, e) == [e EXCEPT !.origin = origin]

\* the messages the window can receive: replies and pushes with every payload
\* of the given sets, with and without a payload, for every messageId, and
\* messages of another type (a 'link' envelope that came back to the window)
EventsOver(ids, responses, renderDatas, errors) ==
    {Message("ui-message-response", m, p) :
            m \in ids, p \in ResponsePayloads(responses, errors) \cup {NoPayload}}
    \cup {Message("ui-lifecycle-iframe-render-data", m, p) :
            m \in ids \cap {0, 1},
            p \in RenderDataPayloads(renderDatas, errors) \cup {NoPayload}}
    \cup {Message("link", m, NoPayload) : m \in ids \cap {0, 1}}

\* ------------------------------------------------------------------- state
VARIABLES
    parent,     \* window.parent: "host", "self" (=== window) or "none"
    calls,      \* the Sender calls made so far; a call's index is its messageId
    waiter,     \* the waitForRenderData call
    listeners,  \* handlers registered with window.addEventListener('message')
    posted,     \* messages handed to window.parent.postMessage, in order
    threw,      \* handlers that raised an uncaught error in the step just taken
    surface,    \* the route rendered in the window and what it shows
    worker      \* the MCP worker: its database, the client and the last tool call

vars == <<parent, calls, waiter, listeners, posted, threw, surface, worker>>

\* the waiter's handleMessage, as a member of listeners
WaiterId == 0

NoReply ==
    [hasData |-> FALSE, type |-> "none", messageId |-> 0, payload |-> NoPayload,
     origin |-> "none"]

\* no route rendered: the helpers are called on their own
NoSurface ==
    [route |-> "none", phase |-> "start", rootRef |-> FALSE, initRuns |-> 0,
     renders |-> 0, entryOf |-> <<>>, deletedEntryIds |-> {},
     isDeleted |-> FALSE, boundary |-> {}]
\* a tool result without UI resource
NoResource == [uri |-> "", iframeUrl |-> "", renderData |-> 0]
\* a worker that has served no tool call
NoWorker ==
    [entries |-> {}, tags |-> {}, elicitation |-> FALSE, baseUrl |-> "",
     log |-> <<>>,
     result |-> [tool |-> "none", id |-> 0, outcome |-> "none",
                 resource |-> NoResource]]

Init ==
    /\ parent \in {"host", "self", "none"}
    /\ calls = <<>>
    /\ waiter = [status |-> "idle", value |-> Undefined, reply |-> NoReply,
                 trace |-> <<>>]
    /\ listeners = {}
    /\ posted = <<>>
    /\ threw = {}
    /\ surface = NoSurface
    /\ worker = NoWorker

\* crypto.randomUUID(): an identifier no earlier call has
randomUUID == Len(calls) + 1

Envelope(type, messageId) ==
    [type |-> type, messageId |-> messageId, targetOrigin |-> "*"]

NewCall(fn, schema, status, value, trace) ==
    [fn |-> fn, schema |-> schema, status |-> status, value |-> value,
     reply |-> NoReply, trace |-> trace]

\* ------------------------------------------------------------ sendMcpMessage
\* (a sender that tests only for a missing parent, not for parent === window)
sendMcpMessage_OnlyMissingParent(type, schema) ==
    /\ LET messageId == randomUUID IN
       IF parent = "none"
       THEN /\ calls' = Append(calls,
                    NewCall("sendMcpMessage", schema, "rejected", NoParentError,
                            <<"reject">>))
            /\ UNCHANGED <<listeners, posted>>
       ELSE /\ posted' = Append(posted, Envelope(type, messageId))
            /\ listeners' = listeners \cup {messageId}
            /\ calls' = Append(calls,
                    NewCall("sendMcpMessage", schema, "pending", Undefined,
                            <<"postMessage", "addEventListener">>))
    /\ threw' = {}
    /\ UNCHANGED <<parent, waiter>>

\* (a sender that posts and leaves the listener registration to a later task)
sendMcpMessage_ListensLater(type, schema) ==
    /\ LET messageId == randomUUID IN
       IF parent # "host"
       THEN /\ calls' = Append(calls,
                    NewCall("sendMcpMessage", schema, "rejected", NoParentError,
                            <<"reject">>))
            /\ UNCHANGED <<listeners, posted>>
       ELSE /\ posted' = Append(posted, Envelope(type, messageId))
            /\ UNCHANGED listeners
            /\ calls' = Append(calls,
                    NewCall("sendMcpMessage", schema, "pending", Undefined,
                            <<"postMessage">>))
    /\ threw' = {}
    /\ UNCHANGED <<parent, waiter>>

\* !window.parent || window.parent === window rejects before anything is
\* posted; otherwise post the envelope, then register handleMessage
sendMcpMessage(type, schema) ==
    /\ LET messageId == randomUUID IN
       IF parent # "host"
       THEN /\ calls' = Append(calls,
                    NewCall("sendMcpMessage", schema, "rejected", NoParentError,
                            <<"reject">>))
            /\ UNCHANGED <<listeners, posted>>
       ELSE /\ posted' = Append(posted, Envelope(type, messageId))
            /\ listeners' = listeners \cup {messageId}
            /\ calls' = Append(calls,
                    NewCall("sendMcpMessage", schema, "pending", Undefined,
                            <<"postMessage", "addEventListener">>))
    /\ threw' = {}
    /\ UNCHANGED <<parent, waiter>>

\* -------------------------------------------------------- sendLinkMcpMessage
\* No parent check: with window.parent === window the message goes to the
\* window itself; with window.parent null the executor throws on
\* window.parent.postMessage and the promise rejects with that TypeError.
sendLinkMcpMessage ==
    /\ LET messageId == randomUUID IN
       IF parent = "none"
       THEN /\ calls' = Append(calls,
                    NewCall("sendLinkMcpMessage", NoSchema, "rejected", TypeError,
                            <<"reject">>))
            /\ UNCHANGED <<listeners, posted>>
       ELSE /\ posted' = Append(posted, Envelope("link", messageId))
            /\ listeners' = listeners \cup {messageId}
            /\ calls' = Append(calls,
                    NewCall("sendLinkMcpMessage", NoSchema, "pending", Undefined,
                            <<"postMessage", "addEventListener">>))
    /\ threw' = {}
    /\ UNCHANGED <<parent, waiter>>

\* --------------------------------------------------------- waitForRenderData
waitForRenderData ==
    /\ waiter.status = "idle"
    /\ IF parent = "none"
       THEN /\ waiter' = [waiter EXCEPT !.status = "rejected", !.value = TypeError,
                                        !.trace = <<"reject">>]
            /\ UNCHANGED <<listeners, posted>>
       ELSE /\ posted' = Append(posted, Envelope("ui-lifecycle-iframe-ready", 0))
            /\ listeners' = listeners \cup {WaiterId}
            /\ waiter' = [waiter EXCEPT !.status = "pending",
                                        !.trace = <<"postMessage", "addEventListener">>]
    /\ threw' = {}
    /\ UNCHANGED <<parent, calls>>

\* ------------------------------------------------- the handlers of a dispatch
\* What one run of a handler does: the call afterwards, whether the handler is
\* still registered, and whether it raised.
Ran(call, keep, raised) == [call |-> call, keep |-> keep, raised |-> raised]

\* removeEventListener, then (after a safeParse when a schema is applied) the
\* promise is resolved or rejected
Settle(call, e, status, value, parsed) ==
    [call EXCEPT !.status = status, !.value = value, !.reply = e,
                 !.trace = call.trace \o <<"removeEventListener">>
                            \o (IF parsed THEN <<"safeParse">> ELSE <<>>)
                            \o <<IF status = "resolved" THEN "resolve" ELSE "reject">>]

\* removeEventListener, then the destructuring of an undefined payload throws
Abandon(call, e) ==
    [call EXCEPT !.reply = e, !.trace = call.trace \o <<"removeEventListener", "throw">>]

\* (a handler that resolves with the response it was given, not the parsed one)
Matched_ResolveRaw(call, e, schema, data) ==
    IF ~e.payload.present THEN Ran(Abandon(call, e), FALSE, TRUE)
    ELSE IF Truthy(e.payload.error)
        THEN Ran(Settle(call, e, "rejected", e.payload.error, FALSE), FALSE, FALSE)
    ELSE IF schema = NoSchema
        THEN Ran(Settle(call, e, "resolved", data, FALSE), FALSE, FALSE)
    ELSE LET parseResult == SafeParse(schema, data) IN
         IF ~parseResult.success
         THEN Ran(Settle(call, e, "rejected", parseResult.error, TRUE), FALSE, FALSE)
         ELSE Ran(Settle(call, e, "resolved", data, TRUE), FALSE, FALSE)

\* (a handler that resolves with `response || undefined` when it has no schema)
Matched_DefaultsFalsy(call, e, schema, data) ==
    IF ~e.payload.present THEN Ran(Abandon(call, e), FALSE, TRUE)
    ELSE IF Truthy(e.payload.error)
        THEN Ran(Settle(call, e, "rejected", e.payload.error, FALSE), FALSE, FALSE)
    ELSE IF schema = NoSchema
        THEN Ran(Settle(call, e, "resolved",
                        IF Truthy(data) THEN data ELSE Undefined, FALSE),
                 FALSE, FALSE)
    ELSE LET parseResult == SafeParse(schema, data) IN
         IF ~parseResult.success
         THEN Ran(Settle(call, e, "rejected", parseResult.error, TRUE), FALSE, FALSE)
         ELSE Ran(Settle(call, e, "resolved", parseResult.data, TRUE), FALSE, FALSE)

\* A handler past its filter, given the schema and the payload field it reads
\* (response or renderData): removeEventListener, destructure the payload,
\* reject with a truthy error, else resolve with the raw value or with the
\* outcome of safeParse.
Matched(call, e, schema, data) ==
    IF ~e.payload.present THEN Ran(Abandon(call, e), FALSE, TRUE)
    ELSE IF Truthy(e.payload.error)
        THEN Ran(Settle(call, e, "rejected", e.payload.error, FALSE), FALSE, FALSE)
    ELSE IF schema = NoSchema
        THEN Ran(Settle(call, e, "resolved", data, FALSE), FALSE, FALSE)
    ELSE LET parseResult == SafeParse(schema, data) IN
         IF ~parseResult.success
         THEN Ran(Settle(call, e, "rejected", parseResult.error, TRUE), FALSE, FALSE)
         ELSE Ran(Settle(call, e, "resolved", parseResult.data, TRUE), FALSE, FALSE)

\* (a handler that does not compare the messageId)
SenderHandleMessage_NoIdCheck(call, messageId, e) ==
    IF ~e.hasData THEN Ran(call, TRUE, TRUE)
    ELSE IF e.type # "ui-message-response" THEN Ran(call, TRUE, FALSE)
    ELSE Matched(call, e, call.schema, e.payload.response)

\* (a handler that never calls removeEventListener)
SenderHandleMessage_KeepListener(call, messageId, e) ==
    IF ~e.hasData THEN Ran(call, TRUE, TRUE)
    ELSE IF e.type # "ui-message-response" THEN Ran(call, TRUE, FALSE)
    ELSE IF e.messageId # messageId THEN Ran(call, TRUE, FALSE)
    ELSE [Matched(call, e, call.schema, e.payload.response) EXCEPT !.keep = TRUE]

\* (a handler that calls removeEventListener only after the error check)
SenderHandleMessage_RemoveAfterErrorCheck(call, messageId, e) ==
    IF ~e.hasData THEN Ran(call, TRUE, TRUE)
    ELSE IF e.type # "ui-message-response" THEN Ran(call, TRUE, FALSE)
    ELSE IF e.messageId # messageId THEN Ran(call, TRUE, FALSE)
    ELSE [Matched(call, e, call.schema, e.payload.response)
             EXCEPT !.keep = e.payload.present /\ Truthy(e.payload.error)]

\* (a handler that calls removeEventListener before it compares the messageId)
SenderHandleMessage_RemoveBeforeIdCheck(call, messageId, e) ==
    IF ~e.hasData THEN Ran(call, TRUE, TRUE)
    ELSE IF e.type # "ui-message-response" THEN Ran(call, TRUE, FALSE)
    ELSE IF e.messageId # messageId
        THEN Ran([call EXCEPT !.trace = @ \o <<"removeEventListener">>],
                 FALSE, FALSE)
    ELSE Matched(call, e, call.schema, e.payload.response)

\* (a handler that rejects a matching reply that the host did not send)
SenderHandleMessage_HostOnly(call, messageId, e) ==
    IF ~e.hasData THEN Ran(call, TRUE, TRUE)
    ELSE IF e.type # "ui-message-response" THEN Ran(call, TRUE, FALSE)
    ELSE IF e.messageId # messageId THEN Ran(call, TRUE, FALSE)
    ELSE IF e.origin # "host"
        THEN Ran(Settle(call, e, "rejected",
                        JsValue("Error", "untrusted origin", FALSE), FALSE),
                 FALSE, FALSE)
    ELSE Matched(call, e, call.schema, e.payload.response)

\* (a handler that compares the messageId only, not the type)
SenderHandleMessage_NoTypeCheck(call, messageId, e) ==
    IF ~e.hasData THEN Ran(call, TRUE, TRUE)
    ELSE IF e.messageId # messageId THEN Ran(call, TRUE, FALSE)
    ELSE Matched(call, e, call.schema, e.payload.response)

\* handleMessage of sendMcpMessage and of sendLinkMcpMessage (which has no
\* schema): event.data.type throws on null data; anything but a
\* 'ui-message-response' with the call's messageId is ignored
SenderHandleMessage(call, messageId, e) ==
    IF ~e.hasData THEN Ran(call, TRUE, TRUE)
    ELSE IF e.type # "ui-message-response" THEN Ran(call, TRUE, FALSE)
    ELSE IF e.messageId # messageId THEN Ran(call, TRUE, FALSE)
    ELSE Matched(call, e, call.schema, e.payload.response)

\* (a waiter that takes the first message with data, whatever its type)
WaiterHandleMessage_NoTypeCheck(w, schema, e) ==
    IF ~e.hasData THEN Ran(w, TRUE, FALSE)
    ELSE Matched(w, e, schema, e.payload.renderData)

\* (a waiter that leaves its listener registered after it has settled)
WaiterHandleMessage_KeepListener(w, schema, e) ==
    IF ~e.hasData THEN Ran(w, TRUE, FALSE)
    ELSE IF e.type # "ui-lifecycle-iframe-render-data" THEN Ran(w, TRUE, FALSE)
    ELSE [Matched(w, e, schema, e.payload.renderData) EXCEPT !.keep = TRUE]

\* handleMessage of waitForRenderData: event.data?.type tolerates null data;
\* anything but a 'ui-lifecycle-iframe-render-data' is ignored, and no
\* messageId is compared
WaiterHandleMessage(w, schema, e) ==
    IF ~e.hasData THEN Ran(w, TRUE, FALSE)
    ELSE IF e.type # "ui-lifecycle-iframe-render-data" THEN Ran(w, TRUE, FALSE)
    ELSE Matched(w, e, schema, e.payload.renderData)

\* (handlers registered as one shared function: the removal by one of them
\* removes them all)
Dispatch_RemovesEveryListener(e) ==
    LET ranCall(i) == SenderHandleMessage(calls[i], i, e)
        ranWaiter == WaiterHandleMessage(waiter, renderDataSchema, e)
        kept == {i \in listeners \ {WaiterId} : ranCall(i).keep}
                  \cup {i \in listeners \cap {WaiterId} : ranWaiter.keep}
    IN  /\ calls' = [i \in DOMAIN calls |->
                        IF i \in listeners THEN ranCall(i).call ELSE calls[i]]
        /\ waiter' = IF WaiterId \in listeners THEN ranWaiter.call ELSE waiter
        /\ listeners' = IF kept = listeners THEN listeners ELSE {}
        /\ threw' =
              {i \in listeners \ {WaiterId} : ranCall(i).raised}
              \cup {i \in listeners \cap {WaiterId} : ranWaiter.raised}
        /\ UNCHANGED <<parent, posted>>

\* The window dispatches one 'message' event to every registered listener; a
\* handler that raises does not stop the others.
Dispatch(e) ==
    LET ranCall(i) == SenderHandleMessage(calls[i], i, e)
        ranWaiter == WaiterHandleMessage(waiter, renderDataSchema, e)
    IN  /\ calls' = [i \in DOMAIN calls |->
                        IF i \in listeners THEN ranCall(i).call ELSE calls[i]]
        /\ waiter' = IF WaiterId \in listeners THEN ranWaiter.call ELSE waiter
        /\ listeners' =
              {i \in listeners \ {WaiterId} : ranCall(i).keep}
              \cup {i \in listeners \cap {WaiterId} : ranWaiter.keep}
        /\ threw' =
              {i \in listeners \ {WaiterId} : ranCall(i).raised}
              \cup {i \in listeners \cap {WaiterId} : ranWaiter.raised}
        /\ UNCHANGED <<parent, posted>>

\* ------------------------------------------------------------ specifications
\* the call sites: delete_entry with its schema, view_entry and the X link
\* without one
CallSites ==
    {<<"tool", deleteEntrySchema>>, <<"tool", NoSchema>>, <<"link", NoSchema>>}

\* Concurrent calls, replies in any order; every event carries an object as
\* its data.
Events ==
    EventsOver(0 .. MaxCalls, {Null, SuccessTrueExtra}, {EntryExtra, EntryBad},
               {Undefined, NotFound})

MakeCall ==
    /\ Len(calls) < MaxCalls
    /\ \E schema \in {NoSchema, deleteEntrySchema} : sendMcpMessage("tool", schema)
    /\ UNCHANGED <<surface, worker>>

MakeLinkCall ==
    /\ Len(calls) < MaxCalls
    /\ sendLinkMcpMessage
    /\ UNCHANGED <<surface, worker>>

AwaitRenderData ==
    /\ waitForRenderData
    /\ UNCHANGED <<surface, worker>>

Receive ==
    /\ \E e \in Events : Dispatch(e)
    /\ UNCHANGED <<surface, worker>>

Next ==
    \/ MakeCall
    \/ MakeLinkCall
    \/ AwaitRenderData
    \/ Receive

Spec == Init /\ [][Next]_vars

\* Few sendMcpMessage calls, events over the larger value sets: every combination of an
\* absent, falsy or truthy error with an absent, null, array or object
\* response, and an event whose data is null.
ReplyEvents ==
    {NullDataEvent} \cup
    EventsOver(0 .. MaxReplyCalls,
               {Undefined, Null, EmptyArray, SuccessTrueExtra, SuccessFalse},
               {EntryExtra, EntryBad},
               {Undefined, EmptyStr, NotFound})

MakeReplyCall ==
    /\ Len(calls) < MaxReplyCalls
    /\ \E site \in CallSites : sendMcpMessage(site[1], site[2])
    /\ UNCHANGED <<surface, worker>>

ReceiveReply ==
    /\ \E e \in ReplyEvents : Dispatch(e)
    /\ UNCHANGED <<surface, worker>>

NextReply ==
    \/ MakeReplyCall
    \/ AwaitRenderData
    \/ ReceiveReply

SpecReply == Init /\ [][NextReply]_vars

\* Calls whose replies and pushes come from the host or from another frame
\* that holds a reference to the window.
OriginEvents ==
    {From(origin, e) :
        origin \in {"host", "other"},
        e \in EventsOver(1 .. MaxOriginCalls, {SuccessTrueExtra}, {EntryExtra},
                         {Undefined, NotFound})}

MakeOriginCall ==
    /\ Len(calls) < MaxOriginCalls
    /\ \E schema \in {NoSchema, deleteEntrySchema} : sendMcpMessage("tool", schema)
    /\ UNCHANGED <<surface, worker>>

ReceiveOrigin ==
    /\ \E e \in OriginEvents : Dispatch(e)
    /\ UNCHANGED <<surface, worker>>

NextOrigin ==
    \/ MakeOriginCall
    \/ AwaitRenderData
    \/ ReceiveOrigin

SpecOrigin == Init /\ [][NextOrigin]_vars

\* ------------------------------------------------------------- the routes
\* (an effect that returns before the ready signal when there is no element)
useMcpUiInit_ReturnsEarly(rootRefCurrent) ==
    /\ posted' =
          IF parent = "none" \/ ~rootRefCurrent THEN posted
          ELSE posted \o <<Envelope("ui-lifecycle-iframe-ready", 0),
                           Envelope("ui-size-change", 0)>>
    /\ threw' = {}

\* One run of the effect of useMcpUiInit, given whether rootRef.current is an
\* element: post the ready signal, return when there is no element, else
\* post the size of the element.  (With window.parent null the first
\* postMessage throws and nothing is posted.)
useMcpUiInit(rootRefCurrent) ==
    /\ posted' =
          IF parent = "none" THEN posted
          ELSE posted \o <<Envelope("ui-lifecycle-iframe-ready", 0)>>
                      \o (IF rootRefCurrent
                          THEN <<Envelope("ui-size-change", 0)>> ELSE <<>>)
    /\ threw' = {}

\* the first render of a component that calls useMcpUiInit(rootRef), and the
\* effect that runs after it
Mounted(rootRefCurrent) ==
    [surface EXCEPT !.phase = "content", !.rootRef = rootRefCurrent,
                    !.initRuns = @ + 1, !.renders = 1]

\* entry viewer: the route's clientLoader awaits waitForRenderData while
\* HydrateFallback is shown
clientLoader ==
    /\ surface.route = "entry-viewer"
    /\ surface.phase = "start"
    /\ waitForRenderData
    /\ surface' = [surface EXCEPT !.phase = "loading"]
    /\ UNCHANGED worker

\* (a route that renders its component as soon as the loader's promise has
\* settled, resolved or rejected)
EntryViewerContent_OnSettled ==
    /\ surface.route = "entry-viewer"
    /\ surface.phase = "loading"
    /\ waiter.status \in {"resolved", "rejected"}
    /\ \E rootRefCurrent \in BOOLEAN :
          /\ useMcpUiInit(rootRefCurrent)
          /\ surface' = Mounted(rootRefCurrent)
    /\ UNCHANGED <<parent, calls, waiter, listeners, worker>>

\* (a component that does not call useMcpUiInit)
EntryViewerContent_NoInit ==
    /\ surface.route = "entry-viewer"
    /\ surface.phase = "loading"
    /\ waiter.status = "resolved"
    /\ \E rootRefCurrent \in BOOLEAN :
          surface' = [Mounted(rootRefCurrent) EXCEPT !.initRuns = surface.initRuns]
    /\ threw' = {}
    /\ UNCHANGED <<parent, calls, waiter, listeners, posted, worker>>

\* entry viewer: once the loader has returned the render data the component
\* is rendered with it and its effect runs
EntryViewerContent ==
    /\ surface.route = "entry-viewer"
    /\ surface.phase = "loading"
    /\ waiter.status = "resolved"
    /\ \E rootRefCurrent \in BOOLEAN :
          /\ useMcpUiInit(rootRefCurrent)
          /\ surface' = Mounted(rootRefCurrent)
    /\ UNCHANGED <<parent, calls, waiter, listeners, worker>>

\* entry viewer: a loader that threw renders the route's ErrorBoundary
ErrorBoundary ==
    /\ surface.route = "entry-viewer"
    /\ surface.phase = "loading"
    /\ waiter.status = "rejected"
    /\ surface' = [surface EXCEPT !.phase = "error"]
    /\ threw' = {}
    /\ UNCHANGED <<parent, calls, waiter, listeners, posted, worker>>

\* journal viewer: its loader runs on the server, the component is rendered
\* at once and its effect runs
JournalViewer ==
    /\ surface.route = "journal-viewer"
    /\ surface.phase = "start"
    /\ \E rootRefCurrent \in BOOLEAN :
          /\ useMcpUiInit(rootRefCurrent)
          /\ surface' = Mounted(rootRefCurrent)
    /\ UNCHANGED <<parent, calls, waiter, listeners, worker>>

\* a state change renders the component again; the effect's dependency
\* [rootRef] is the same object, so the effect does not run again
Rerender ==
    /\ surface.phase = "content"
    /\ surface.renders < MaxRenders
    /\ surface' = [surface EXCEPT !.renders = @ + 1]
    /\ threw' = {}
    /\ UNCHANGED <<parent, calls, waiter, listeners, posted, worker>>

\* (an unmount that removes the listeners the route's calls registered)
Unmount_RemovesListeners ==
    /\ surface.phase \in {"loading", "content", "error"}
    /\ surface' = [surface EXCEPT !.phase = "unmounted"]
    /\ listeners' = {}
    /\ threw' = {}
    /\ UNCHANGED <<parent, calls, waiter, posted, worker>>

\* the route is left while the window lives on: the effect returns no
\* cleanup and the helpers register their handlers on window, so nothing is
\* removed
Unmount ==
    /\ surface.phase \in {"loading", "content", "error"}
    /\ surface' = [surface EXCEPT !.phase = "unmounted"]
    /\ threw' = {}
    /\ UNCHANGED <<parent, calls, waiter, listeners, posted, worker>>

\* the Sender calls of a route: the entry viewer's delete button passes no
\* schema, the journal viewer's passes deleteEntrySchema and its links go
\* through sendMcpMessage('link')
SurfaceCallSites(route) ==
    IF route = "entry-viewer" THEN {<<"tool", NoSchema>>}
    ELSE {<<"tool", deleteEntrySchema>>, <<"link", NoSchema>>}

\* the entries a route shows: the one of the render data, or the loader's list
SurfaceEntries(route) == IF route = "entry-viewer" THEN {1} ELSE Ids

\* the button's target in surface.entryOf and surface.boundary: the entry of
\* a delete button, 0 for the link
Target(site, entry) == IF site[1] = "link" THEN 0 ELSE entry

\* (a journal viewer that calls onDeleted() whenever the call resolved)
Continue_OnAnyResolve(s, i, c) ==
    IF s.phase # "content" THEN s
    ELSE IF s.route = "entry-viewer"
    THEN IF c.status = "resolved"
         THEN [s EXCEPT !.isDeleted = TRUE]
         ELSE [s EXCEPT !.boundary = @ \cup {s.entryOf[i]}]
    ELSE IF c.schema = NoSchema
    THEN IF c.status = "resolved" THEN s
         ELSE [s EXCEPT !.boundary = @ \cup {s.entryOf[i]}]
    ELSE IF c.status = "resolved"
    THEN [s EXCEPT !.deletedEntryIds = @ \cup {s.entryOf[i]}]
    ELSE [s EXCEPT !.boundary = @ \cup {s.entryOf[i]}]

\* (an entry viewer that reads result.structuredContent.success as the
\* journal viewer does)
Continue_ChecksSuccess(s, i, c) ==
    IF s.phase # "content" THEN s
    ELSE IF c.schema = NoSchema /\ s.route = "journal-viewer"
    THEN IF c.status = "resolved" THEN s
         ELSE [s EXCEPT !.boundary = @ \cup {s.entryOf[i]}]
    ELSE IF c.status = "resolved"
            /\ c.value.body = "structuredContent.success=true"
    THEN IF s.route = "entry-viewer"
         THEN [s EXCEPT !.isDeleted = TRUE]
         ELSE [s EXCEPT !.deletedEntryIds = @ \cup {s.entryOf[i]}]
    ELSE [s EXCEPT !.boundary = @ \cup {s.entryOf[i]}]

\* What follows `await sendMcpMessage(...)` in the click handler once call i
\* has settled as c, when the component is still rendered.  Entry viewer:
\* onDeleted() sets isDeleted after any resolve, showBoundary(err) after a
\* reject.  Journal viewer: the link does nothing after a resolve; the
\* delete button calls onDeleted() (the entry id joins deletedEntryIds) when
\* result.structuredContent.success is true and showBoundary otherwise and
\* after a reject.
Continue(s, i, c) ==
    IF s.phase # "content" THEN s
    ELSE IF s.route = "entry-viewer"
    THEN IF c.status = "resolved"
         THEN [s EXCEPT !.isDeleted = TRUE]
         ELSE [s EXCEPT !.boundary = @ \cup {s.entryOf[i]}]
    ELSE IF c.schema = NoSchema
    THEN IF c.status = "resolved" THEN s
         ELSE [s EXCEPT !.boundary = @ \cup {s.entryOf[i]}]
    ELSE IF c.status = "resolved"
            /\ c.value.body = "structuredContent.success=true"
    THEN [s EXCEPT !.deletedEntryIds = @ \cup {s.entryOf[i]}]
    ELSE [s EXCEPT !.boundary = @ \cup {s.entryOf[i]}]

\* the calls that are settled in `after` and were not in `before`
SettledNow(before, after) ==
    {i \in DOMAIN after :
        /\ after[i].status \in {"resolved", "rejected"}
        /\ i \in DOMAIN before => before[i].status = "pending"}

\* the continuation of the call that settled in the step, run as a microtask
\* before the next event is dispatched (a step settles at most one call)
AfterSettle(s, before, after) ==
    LET new == SettledNow(before, after) IN
    IF new = {} THEN s
    ELSE LET i == CHOOSE i \in new : TRUE IN Continue(s, i, after[i])

\* A click on a button of the rendered component: the delete button of an
\* entry or the link.  A delete button is there while the entry is not
\* marked deleted and its error boundary is not showing, and is disabled
\* while its call is pending.  A call that rejects at once (no parent) is
\* continued at once.
handleDelete ==
    /\ surface.phase = "content"
    /\ Len(calls) < MaxSurfaceCalls
    /\ ~surface.isDeleted
    /\ \E site \in SurfaceCallSites(surface.route),
          entry \in SurfaceEntries(surface.route) :
          /\ Target(site, entry) \notin surface.boundary \cup surface.deletedEntryIds
          /\ \A i \in DOMAIN calls :
                surface.entryOf[i] = Target(site, entry) =>
                    calls[i].status # "pending"
          /\ sendMcpMessage(site[1], site[2])
          /\ surface' =
                AfterSettle([surface EXCEPT
                                !.entryOf = Append(@, Target(site, entry))],
                            calls, calls')
    /\ UNCHANGED worker

\* 'Try again' in DeleteEntryError: the button is rendered again
resetErrorBoundary ==
    /\ surface.phase = "content"
    /\ \E target \in surface.boundary :
          surface' = [surface EXCEPT !.boundary = @ \ {target}]
    /\ threw' = {}
    /\ UNCHANGED <<parent, calls, waiter, listeners, posted, worker>>

SurfaceEvents ==
    {NullDataEvent} \cup
    EventsOver(0 .. MaxSurfaceCalls, {SuccessTrueExtra, SuccessFalse},
               {EntryExtra, EntryBad}, {Undefined, NotFound})

ReceiveSurface ==
    /\ \E e \in SurfaceEvents : Dispatch(e)
    /\ surface' = AfterSettle(surface, calls, calls')
    /\ UNCHANGED worker

\* a route is rendered in a window of a browsing context: window.parent is
\* the host's window or, at the top level, the window itself
InitSurface ==
    /\ parent \in {"host", "self"}
    /\ calls = <<>>
    /\ waiter = [status |-> "idle", value |-> Undefined, reply |-> NoReply,
                 trace |-> <<>>]
    /\ listeners = {}
    /\ posted = <<>>
    /\ threw = {}
    /\ surface \in {[NoSurface EXCEPT !.route = r] :
                        r \in {"entry-viewer", "journal-viewer"}}
    /\ worker = NoWorker

NextSurface ==
    \/ clientLoader
    \/ EntryViewerContent
    \/ ErrorBoundary
    \/ JournalViewer
    \/ Rerender
    \/ Unmount
    \/ handleDelete
    \/ resetErrorBoundary
    \/ ReceiveSurface

SpecSurface == InitSurface /\ [][NextSurface]_vars

\* -------------------------------------------------------- the worker's tools
\* worker.entries and worker.tags are the ids in the database,
\* worker.elicitation is capabilities?.elicitation of the connected client,
\* worker.log lists the database and client requests of the last tool call
\* in order, worker.result is what that call returned or threw.

\* what the user does with an elicitation request
Answers ==
    {[action |-> a, confirmed |-> c] :
        a \in {"accept", "decline", "cancel"}, c \in BOOLEAN}

cloudflareSupportsElicitation == FALSE

\* elicitConfirmation: without the client capability, or while
\* cloudflareSupportsElicitation is false, return true without asking;
\* otherwise elicitInput and return whether the user accepted and confirmed
elicitConfirmation(capabilities, answer) ==
    IF ~capabilities \/ ~cloudflareSupportsElicitation
    THEN [log |-> <<>>, confirmed |-> TRUE]
    ELSE [log |-> <<"elicitInput">>,
          confirmed |-> answer.action = "accept" /\ answer.confirmed]

Returned(tool, id, outcome, log) ==
    [worker EXCEPT !.log = log,
                   !.result = [tool |-> tool, id |-> id, outcome |-> outcome,
                               resource |-> NoResource]]

\* delete_entry: getEntry, invariant(existingEntry), elicitConfirmation,
\* then either success: false with the entry or db.deleteEntry and
\* success: true
delete_entry(id, answer) ==
    LET confirmation == elicitConfirmation(worker.elicitation, answer) IN
    worker' =
        IF id \notin worker.entries
        THEN Returned("delete_entry", id, "not-found", <<"getEntry">>)
        ELSE IF ~confirmation.confirmed
        THEN Returned("delete_entry", id, "success=false",
                      <<"getEntry">> \o confirmation.log)
        ELSE [Returned("delete_entry", id, "success=true",
                       <<"getEntry">> \o confirmation.log \o <<"deleteEntry">>)
                 EXCEPT !.entries = @ \ {id}]

\* delete_tag: the same with getTag and db.deleteTag
delete_tag(id, answer) ==
    LET confirmation == elicitConfirmation(worker.elicitation, answer) IN
    worker' =
        IF id \notin worker.tags
        THEN Returned("delete_tag", id, "not-found", <<"getTag">>)
        ELSE IF ~confirmation.confirmed
        THEN Returned("delete_tag", id, "success=false",
                      <<"getTag">> \o confirmation.log)
        ELSE [Returned("delete_tag", id, "success=true",
                       <<"getTag">> \o confirmation.log \o <<"deleteTag">>)
                 EXCEPT !.tags = @ \ {id}]

\* update_tag: db.updateTag(id, updates) is the first thing it does.  What
\* the database client does for an id it does not have is not in this
\* repository: it throws, or it returns no tag and reading updatedTag.name
\* throws a TypeError.
update_tag(id, missing) ==
    worker' =
        IF id \in worker.tags
        THEN Returned("update_tag", id, "updated", <<"updateTag">>)
        ELSE Returned("update_tag", id, missing, <<"updateTag">>)

\* new URL(path, base).toString(), with the path segments that follow
URL(path, segments, base) == [base |-> base, path |-> path, segments |-> segments]

\* (a tool that names the entry in the iframe URL: /ui/entry-viewer/:id)
view_entry_IdInUrl(id) ==
    worker' =
        IF worker.baseUrl = ""
        THEN Returned("view_entry", id, "no-base-url", <<>>)
        ELSE IF id \notin worker.entries
        THEN Returned("view_entry", id, "not-found", <<"getEntry">>)
        ELSE [Returned("view_entry", id, "resource", <<"getEntry">>)
                 EXCEPT !.result.resource =
                     [uri |-> <<"ui://view-entry", id>>,
                      iframeUrl |-> URL("/ui/entry-viewer", <<id>>, worker.baseUrl),
                      renderData |-> id]]

\* view_entry: the iframe URL is /ui/entry-viewer on the agent's base URL
\* (requireBaseUrl throws without one), then getEntry and invariant(entry);
\* the UI resource has the uri ui://view-entry/<id>, the iframe URL, and the
\* entry (named here by its id) as uiMetadata['initial-render-data']
view_entry(id) ==
    worker' =
        IF worker.baseUrl = ""
        THEN Returned("view_entry", id, "no-base-url", <<>>)
        ELSE IF id \notin worker.entries
        THEN Returned("view_entry", id, "not-found", <<"getEntry">>)
        ELSE [Returned("view_entry", id, "resource", <<"getEntry">>)
                 EXCEPT !.result.resource =
                     [uri |-> <<"ui://view-entry", id>>,
                      iframeUrl |-> URL("/ui/entry-viewer", <<>>, worker.baseUrl),
                      renderData |-> id]]

CallViewEntry ==
    /\ \E id \in Ids : view_entry(id)
    /\ UNCHANGED <<parent, calls, waiter, listeners, posted, threw, surface>>

CallDeleteEntry ==
    /\ \E id \in Ids, answer \in Answers : delete_entry(id, answer)
    /\ UNCHANGED <<parent, calls, waiter, listeners, posted, threw, surface>>

CallDeleteTag ==
    /\ \E id \in Ids, answer \in Answers : delete_tag(id, answer)
    /\ UNCHANGED <<parent, calls, waiter, listeners, posted, threw, surface>>

CallUpdateTag ==
    /\ \E id \in Ids, missing \in {"db-error", "TypeError"} : update_tag(id, missing)
    /\ UNCHANGED <<parent, calls, waiter, listeners, posted, threw, surface>>

\* a worker with any database over Ids and a client with or without the
\* elicitation capability
InitTools ==
    /\ parent = "host"
    /\ calls = <<>>
    /\ waiter = [status |-> "idle", value |-> Undefined, reply |-> NoReply,
                 trace |-> <<>>]
    /\ listeners = {}
    /\ posted = <<>>
    /\ threw = {}
    /\ surface = NoSurface
    /\ worker \in {[NoWorker EXCEPT !.entries = es, !.tags = ts, !.elicitation = el,
                                     !.baseUrl = base] :
                       es \in SUBSET Ids, ts \in SUBSET Ids, el \in BOOLEAN,
                       base \in {"", "https://epicme.example"}}

NextTools ==
    \/ CallViewEntry
    \/ CallDeleteEntry
    \/ CallDeleteTag
    \/ CallUpdateTag

SpecTools == InitTools /\ [][NextTools]_vars

\* ------------------------------------------------------------------ claims
Settled(c) == c.status \in {"resolved", "rejected"}
\* a message passed the call's type and id filter
Processed(c) == c.reply # NoReply
Range(seq) == {seq[k] : k \in DOMAIN seq}

\* C1: a reply carrying id A changes only the call that posted id A: every
\* other call keeps its state and its listener, whatever the order of the
\* replies, and a call that settles does so with a value taken from the reply
\* that carried its own id.
C1_CorrelationSoundness ==
    [][\A b \in DOMAIN calls :
          calls'[b] # calls[b] =>
              /\ calls'[b].reply.type = "ui-message-response"
              /\ calls'[b].reply.messageId = b
              /\ Settled(calls'[b]) =>
                    calls'[b].value \in
                        {calls'[b].reply.payload.error,
                         calls'[b].reply.payload.response,
                         SafeParse(calls'[b].schema,
                                   calls'[b].reply.payload.response).data,
                         ZodError}
              /\ \A a \in DOMAIN calls \ {b} :
                    /\ calls'[a] = calls[a]
                    /\ a \in listeners <=> a \in listeners']_vars

\* the second call's reply arrived first: it is resolved with its own payload
\* and the first call is still pending with its listener
C1_Witness ==
    /\ Len(calls) = 2
    /\ calls[2].status = "resolved"
    /\ calls[2].reply.messageId = 2
    /\ calls[2].value = calls[2].reply.payload.response
    /\ calls[1].status = "pending"
    /\ 1 \in listeners

\* C2: once a reply has passed the filter of a sendMcpMessage call, no later
\* step changes the call (its outcome stays), and its handler is not
\* registered, so it does not run or raise again.
C2_AtMostOnceSettlement ==
    [][\A i \in DOMAIN calls :
          (calls[i].fn = "sendMcpMessage" /\ Processed(calls[i])) =>
              /\ calls'[i] = calls[i]
              /\ i \notin listeners'
              /\ i \notin threw']_vars

C2_Witness ==
    \E i \in DOMAIN calls :
        /\ calls[i].fn = "sendMcpMessage"
        /\ Processed(calls[i])
        /\ Settled(calls[i])
        /\ i \notin listeners

\* C3: a matching reply whose payload has both error and response set makes
\* sendMcpMessage reject with the error value, whatever the two values are.
C3_ErrorPrecedence ==
    \A i \in DOMAIN calls :
        LET c == calls[i] IN
        (/\ c.fn = "sendMcpMessage"
         /\ Processed(c)
         /\ c.reply.payload.present
         /\ c.reply.payload.error # Undefined
         /\ c.reply.payload.response # Undefined)
        => (c.status = "rejected" /\ c.value = c.reply.payload.error)

\* C4: with a schema and a reply without error, sendMcpMessage resolves with
\* the parsed value when the response validates and rejects with the
\* validator's error when it does not; a call with a schema never resolves
\* with a value that is not the schema's output.
C4_SchemaGate ==
    \A i \in DOMAIN calls :
        LET c == calls[i]
            parsed == SafeParse(c.schema, c.reply.payload.response)
        IN  (c.fn = "sendMcpMessage" /\ c.schema # NoSchema) =>
              /\ (Processed(c) /\ c.reply.payload.present
                    /\ c.reply.payload.error = Undefined) =>
                      IF parsed.success
                      THEN c.status = "resolved" /\ c.value = parsed.data
                      ELSE c.status = "rejected" /\ c.value = ZodError
              /\ c.status = "resolved" =>
                      /\ c.value.kind = "object"
                      /\ c.value.body \in c.schema.accepts
                      /\ ~c.value.extra

\* a call with the schema resolved with the parsed value, which is not the
\* response it was sent
C4_Witness ==
    \E i \in DOMAIN calls :
        /\ calls[i].schema = deleteEntrySchema
        /\ calls[i].status = "resolved"
        /\ calls[i].reply.payload.response = SuccessTrueExtra
        /\ calls[i].value # SuccessTrueExtra
        /\ "safeParse" \in Range(calls[i].trace)

\* C5: without a schema and with a reply without error, sendMcpMessage
\* resolves with the reply's response itself, for every response value.
C5_NoSchemaPassthrough ==
    \A i \in DOMAIN calls :
        LET c == calls[i] IN
        (/\ c.fn = "sendMcpMessage"
         /\ c.schema = NoSchema
         /\ Processed(c)
         /\ c.reply.payload.present
         /\ c.reply.payload.error = Undefined)
        => (/\ c.status = "resolved"
            /\ c.value = c.reply.payload.response
            /\ "safeParse" \notin Range(c.trace))

\* a call without schema resolved with null
C5_Witness ==
    \E i \in DOMAIN calls :
        /\ calls[i].fn = "sendMcpMessage"
        /\ calls[i].schema = NoSchema
        /\ calls[i].status = "resolved"
        /\ calls[i].reply.payload.response = Null
        /\ calls[i].value = Null

\* C6: a sendMcpMessage call made when window.parent is missing or is the
\* window itself rejects with the no-parent error, posts nothing and leaves
\* the registered listeners as they were.
C6_NoHostImmediateFailure ==
    [][(/\ Len(calls') = Len(calls) + 1
        /\ calls'[Len(calls')].fn = "sendMcpMessage"
        /\ parent \in {"self", "none"})
       => (/\ calls'[Len(calls')].status = "rejected"
           /\ calls'[Len(calls')].value = NoParentError
           /\ calls'[Len(calls')].trace = <<"reject">>
           /\ posted' = posted
           /\ listeners' = listeners
           /\ Len(calls') \notin listeners')]_vars

\* with window.parent === window, a sendMcpMessage call is rejected while a
\* waiter listener stays registered and only the waiter has posted
C6_Witness ==
    /\ parent = "self"
    /\ \E i \in DOMAIN calls :
          /\ calls[i].fn = "sendMcpMessage"
          /\ calls[i].status = "rejected"
          /\ calls[i].value = NoParentError
    /\ listeners = {WaiterId}
    /\ Len(posted) = 1

\* C7: a sendLinkMcpMessage call made when no parent distinct from the
\* window exists rejects at once, posts nothing and registers no listener.
C7_LinkNoHostImmediateFailure ==
    [][(/\ Len(calls') = Len(calls) + 1
        /\ calls'[Len(calls')].fn = "sendLinkMcpMessage"
        /\ parent \in {"self", "none"})
       => (/\ calls'[Len(calls')].status = "rejected"
           /\ posted' = posted
           /\ listeners' = listeners)]_vars

\* C8: a matching reply whose payload contains error makes sendMcpMessage
\* reject with exactly that value, and safeParse is not run on the reply.
C8_HostErrorPassthrough ==
    \A i \in DOMAIN calls :
        LET c == calls[i] IN
        (/\ c.fn = "sendMcpMessage"
         /\ Processed(c)
         /\ c.reply.payload.present
         /\ c.reply.payload.error # Undefined)
        => (/\ c.status = "rejected"
            /\ c.value = c.reply.payload.error
            /\ "safeParse" \notin Range(c.trace))

\* C9: a settled sendMcpMessage call has no listener registered, and a call
\* that registered one removed it before its promise was resolved or
\* rejected.
C9_ListenerReleasedOnSettlement ==
    \A i \in DOMAIN calls :
        LET c == calls[i] IN
        (c.fn = "sendMcpMessage" /\ Settled(c)) =>
            /\ i \notin listeners
            /\ "addEventListener" \in Range(c.trace) =>
                  \E j, k \in DOMAIN c.trace :
                      /\ j < k
                      /\ c.trace[j] = "removeEventListener"
                      /\ c.trace[k] \in {"resolve", "reject"}

\* a call rejected with the host's error has released its listener, which it
\* removed before rejecting, while another call's listener is still registered
C9_Witness ==
    \E i, j \in DOMAIN calls :
        /\ calls[i].fn = "sendMcpMessage"
        /\ calls[i].status = "rejected"
        /\ calls[i].value = NotFound
        /\ calls[i].trace = <<"postMessage", "addEventListener",
                              "removeEventListener", "reject">>
        /\ i \notin listeners
        /\ j \in listeners

\* C10: the first message of type 'ui-lifecycle-iframe-render-data' that
\* reaches the waiter is taken whatever its messageId, removes the waiter's
\* listener and settles the promise (so that no later push finds a handler to
\* run).
C10_WaiterOneShotFirstWins ==
    Processed(waiter) =>
        /\ waiter.reply.type = "ui-lifecycle-iframe-render-data"
        /\ WaiterId \notin listeners
        /\ Settled(waiter)

\* C11: on the accepted push, waitForRenderData rejects with payload.error
\* when the payload has one; otherwise it rejects with the validator's error
\* when renderData does not validate and resolves with the parsed value when
\* it does; it never resolves with render data that failed validation.
C11_WaiterOutcome ==
    LET p == waiter.reply.payload
        parsed == SafeParse(renderDataSchema, p.renderData)
    IN  /\ (Processed(waiter) /\ p.present) =>
               IF p.error # Undefined
               THEN waiter.status = "rejected" /\ waiter.value = p.error
               ELSE IF parsed.success
               THEN waiter.status = "resolved" /\ waiter.value = parsed.data
               ELSE waiter.status = "rejected" /\ waiter.value = ZodError
        /\ waiter.status = "resolved" => parsed.success

C13_SilentNonMatch ==
    [][\A i \in DOMAIN calls :
          (/\ calls[i].fn = "sendMcpMessage"
           /\ calls[i].status = "pending"
           /\ i \in listeners
           /\ ~Processed(calls'[i]))
          => (/\ calls'[i] = calls[i]
              /\ i \in listeners'
              /\ i \notin threw')]_vars

\* C14: a posted sendMcpMessage call that is pending with its listener
\* registered stays exactly so in every step (another call's settlement, a
\* non-matching event, a re-render, an unmount) but the one that delivers a
\* 'ui-message-response' with its own messageId: nothing else settles the
\* promise or removes the listener.
C14_NoTimeoutNoCancellation ==
    [][\A i \in DOMAIN calls :
          (/\ calls[i].fn = "sendMcpMessage"
           /\ calls[i].status = "pending"
           /\ i \in listeners)
          => \/ /\ calls'[i] = calls[i]
                /\ i \in listeners'
             \/ /\ calls'[i].reply.type = "ui-message-response"
                /\ calls'[i].reply.messageId = i]_vars

\* the route was rendered twice and then left, another call has settled, and
\* the first call is still pending with its listener registered
C14_Witness ==
    /\ surface.phase = "unmounted"
    /\ surface.renders = 2
    /\ Len(calls) = 2
    /\ calls[1].fn = "sendMcpMessage"
    /\ calls[1].status = "pending"
    /\ 1 \in listeners
    /\ Settled(calls[2])
    /\ Processed(calls[2])

\* a 'ui-lifecycle-iframe-render-data' message has reached the waiter
RenderDataDelivered ==
    /\ Processed(waiter)
    /\ waiter.reply.type = "ui-lifecycle-iframe-render-data"

C16_RenderGating ==
    surface.route = "entry-viewer" =>
        /\ (\/ surface.phase = "content"
            \/ surface.renders > 0
            \/ surface.initRuns > 0
            \/ Len(calls) > 0
            \/ Len(posted) > 1
            \/ \E k \in DOMAIN posted :
                  posted[k].type \in {"ui-size-change", "tool"})
           => waiter.status = "resolved"
        /\ waiter.status = "rejected" =>
              /\ surface.phase \in {"loading", "error", "unmounted"}
              /\ surface.renders = 0

\* the content is rendered after the promise resolved and its delete call
\* has been posted
C16_Witness ==
    /\ surface.route = "entry-viewer"
    /\ surface.phase = "content"
    /\ waiter.status = "resolved"
    /\ surface.initRuns = 1
    /\ \E k \in DOMAIN posted : posted[k].type = "tool"

\* C17 (as stated): the initializer fires first, the waiter consumes the
\* render-data push after that, and Sender calls come afterwards; in the
\* entry viewer the initializer's ready signal is posted before the waiter
\* consumes the push.
C17_InitializerBeforePush ==
    /\ (surface.route = "entry-viewer" /\ Processed(waiter)) =>
            surface.initRuns >= 1
    /\ Len(calls) > 0 => surface.initRuns >= 1

\* C17: Sender calls are made only after the initializer has fired.  In the
\* journal viewer the initializer's ready signal is the first message
\* posted.  In the entry viewer the first message posted is the ready signal
\* of waitForRenderData itself, the waiter consumes the push after it, and
\* the initializer fires only after the promise has resolved, its ready
\* signal being the second message posted.
C17_ControlFlowOrder ==
    /\ Len(calls) > 0 => surface.initRuns >= 1
    /\ posted # <<>> => posted[1].type = "ui-lifecycle-iframe-ready"
    /\ surface.route = "journal-viewer" =>
          (posted # <<>> => surface.initRuns >= 1)
    /\ surface.route = "entry-viewer" =>
          /\ Processed(waiter) =>
                /\ posted # <<>>
                /\ waiter.trace[1] = "postMessage"
          /\ surface.initRuns >= 1 =>
                /\ waiter.status = "resolved"
                /\ Len(posted) >= 2
                /\ posted[2].type = "ui-lifecycle-iframe-ready"

\* entry viewer: the waiter's ready signal, then the initializer's, then the
\* delete call, with the promise resolved
C17_Witness ==
    /\ surface.route = "entry-viewer"
    /\ waiter.status = "resolved"
    /\ surface.initRuns = 1
    /\ Len(posted) >= 3
    /\ posted[1].type = "ui-lifecycle-iframe-ready"
    /\ posted[2].type = "ui-lifecycle-iframe-ready"
    /\ posted[Len(posted)].type = "tool"
    /\ Len(calls) = 1

\* C18: the sender of a reply plays no part.  Two sendMcpMessage calls made
\* with the same schema whose matching replies carry the same payload, sent
\* by whatever frames, have the same outcome: the same status, value and
\* handler steps; and every message the window posts has the target origin
\* '*'.
C18_NoOriginCheck ==
    /\ \A k \in DOMAIN posted : posted[k].targetOrigin = "*"
    /\ \A i, j \in DOMAIN calls :
          (/\ Processed(calls[i])
           /\ Processed(calls[j])
           /\ calls[i].schema = calls[j].schema
           /\ calls[i].reply.payload = calls[j].reply.payload)
          => (/\ calls[i].status = calls[j].status
              /\ calls[i].value = calls[j].value
              /\ calls[i].trace = calls[j].trace
              /\ i \in listeners <=> j \in listeners)

\* two calls with the schema, one answered by the host and one by another
\* frame with the same payload, both resolved with the same parsed value
C18_Witness ==
    /\ Len(calls) = 2
    /\ calls[1].schema = deleteEntrySchema
    /\ calls[2].schema = deleteEntrySchema
    /\ calls[1].reply.origin = "host"
    /\ calls[2].reply.origin = "other"
    /\ calls[1].reply.payload = calls[2].reply.payload
    /\ calls[1].status = "resolved"
    /\ calls[2].status = "resolved"
    /\ calls[1].value = calls[2].value

\* C19: update_tag called with an id for which there is no tag fails with
\* the tool's own not-found error and makes no updateTag request to the
\* database.
C19_UpdateTagValidatesExistence ==
    (worker.result.tool = "update_tag" /\ worker.result.id \notin worker.tags) =>
        /\ worker.result.outcome = "not-found"
        /\ "updateTag" \notin Range(worker.log)

\* C20: delete_entry and delete_tag make their database delete only after
\* an elicitation request was put to the user; and when a request was put
\* and not confirmed, nothing is deleted and the result is success = false.
C20_ConfirmBeforeDelete ==
    /\ \A k \in DOMAIN worker.log :
          worker.log[k] \in {"deleteEntry", "deleteTag"} =>
              \E j \in 1 .. k - 1 : worker.log[j] = "elicitInput"
    /\ worker.result.outcome = "success=false" =>
          /\ "elicitInput" \in Range(worker.log)
          /\ "deleteEntry" \notin Range(worker.log)
          /\ "deleteTag" \notin Range(worker.log)

Count(seq, x) == Cardinality({k \in DOMAIN seq : seq[k] = x})

\* C22: a sendMcpMessage call made where window.parent is the host has
\* posted exactly one envelope with its messageId and registered its
\* listener exactly once; the listener is removed exactly once, by the first
\* reply that passes the call's filter, and is registered until then.
C22_SideEffectsPerCall ==
    \A i \in DOMAIN calls :
        LET c == calls[i] IN
        (c.fn = "sendMcpMessage" /\ parent = "host") =>
            /\ Count(c.trace, "postMessage") = 1
            /\ Cardinality({k \in DOMAIN posted :
                               posted[k].messageId = i /\ posted[k].type = "tool"}) = 1
            /\ Count(c.trace, "addEventListener") = 1
            /\ c.trace[1] = "postMessage"
            /\ c.trace[2] = "addEventListener"
            /\ IF Processed(c)
               THEN /\ Count(c.trace, "removeEventListener") = 1
                    /\ c.trace[3] = "removeEventListener"
                    /\ c.reply.messageId = i
                    /\ i \notin listeners
               ELSE /\ Count(c.trace, "removeEventListener") = 0
                    /\ i \in listeners

\* two calls, each with its own envelope posted; the first has processed its
\* reply and removed its listener once, the second still listens
C22_Witness ==
    /\ parent = "host"
    /\ Len(calls) = 2
    /\ calls[1].fn = "sendMcpMessage"
    /\ calls[2].fn = "sendMcpMessage"
    /\ Processed(calls[1])
    /\ Count(calls[1].trace, "removeEventListener") = 1
    /\ ~Processed(calls[2])
    /\ listeners = {2}
    /\ Len(posted) = 2

\* the handlers whose filter a message passed in this step
ProcessedNow ==
    {i \in DOMAIN calls : ~Processed(calls[i]) /\ Processed(calls'[i])}
    \cup {i \in {WaiterId} : ~Processed(waiter) /\ Processed(waiter')}

\* C23: a step removes from the window only the listener of the call (or
\* waiter) whose message it processed, at most one; every other registered
\* listener stays registered and its call or waiter is left as it was.
C23_OwnListenerRemovalOnly ==
    [][/\ listeners \ listeners' \subseteq ProcessedNow
       /\ Cardinality(listeners \ listeners') <= 1
       /\ \A j \in listeners \ ProcessedNow :
             /\ j \in listeners'
             /\ j \in DOMAIN calls => calls'[j] = calls[j]
             /\ j = WaiterId => waiter' = waiter]_vars

\* the waiter and the second call have settled and are no longer registered;
\* the first call is pending and its listener is the only one left
C23_Witness ==
    /\ Len(calls) = 2
    /\ Settled(waiter)
    /\ Settled(calls[2])
    /\ Processed(calls[2])
    /\ calls[1].status = "pending"
    /\ ~Processed(calls[1])
    /\ listeners = {1}

\* a delete_entry call that resolved with the validated response
\* { structuredContent: { success: true } }
ResolvedSuccess(c) ==
    /\ c.fn = "sendMcpMessage"
    /\ c.schema = deleteEntrySchema
    /\ c.status = "resolved"
    /\ c.value = SafeParse(deleteEntrySchema, c.reply.payload.response).data
    /\ c.value.body = "structuredContent.success=true"

\* C24: in the journal viewer every id in deletedEntryIds is the entry of a
\* delete_entry call that resolved with a schema-validated response whose
\* structuredContent.success is true; and a step in which a delete_entry
\* call of the rendered viewer settles otherwise (rejected with the host's
\* error, a validation error or the no-parent error, or resolved with
\* success false) leaves deletedEntryIds as it was and puts the entry's
\* error boundary up.
C24_JournalDeletionGated ==
    [][surface'.route = "journal-viewer" =>
          /\ \A id \in surface'.deletedEntryIds :
                \E i \in DOMAIN calls' :
                    surface'.entryOf[i] = id /\ ResolvedSuccess(calls'[i])
          /\ \A i \in SettledNow(calls, calls') :
                (/\ surface.phase = "content"
                 /\ calls'[i].schema = deleteEntrySchema
                 /\ ~ResolvedSuccess(calls'[i]))
                => (/\ surface'.deletedEntryIds = surface.deletedEntryIds
                    /\ surface'.entryOf[i] \in surface'.boundary)]_vars

\* entry 1 is marked deleted after its call resolved with success true,
\* entry 2 is not: its call resolved with success false and its error
\* boundary is up
C24_Witness ==
    /\ surface.route = "journal-viewer"
    /\ surface.phase = "content"
    /\ surface.deletedEntryIds = {1}
    /\ surface.boundary = {2}
    /\ \E i, j \in DOMAIN calls :
          /\ surface.entryOf[i] = 1
          /\ ResolvedSuccess(calls[i])
          /\ surface.entryOf[j] = 2
          /\ calls[j].status = "resolved"
          /\ calls[j].value = SuccessFalse

\* C29: in the rendered entry viewer isDeleted is true exactly when a
\* delete_entry call has resolved, whatever it resolved with; a step in
\* which its call is rejected leaves isDeleted false and puts the error
\* boundary up.
C29_EntryDeletionOnResolve ==
    [][(surface'.route = "entry-viewer" /\ surface'.phase = "content") =>
          /\ surface'.isDeleted <=>
                \E i \in DOMAIN calls' : calls'[i].status = "resolved"
          /\ \A i \in SettledNow(calls, calls') :
                calls'[i].status = "rejected" =>
                    /\ ~surface'.isDeleted
                    /\ surface'.entryOf[i] \in surface'.boundary]_vars

\* the entry viewer shows the entry as deleted after its call resolved with
\* a response that reports success false
C29_Witness ==
    /\ surface.route = "entry-viewer"
    /\ surface.phase = "content"
    /\ surface.isDeleted
    /\ \E i \in DOMAIN calls :
          /\ calls[i].schema = NoSchema
          /\ calls[i].status = "resolved"
          /\ calls[i].value = SuccessFalse

\* C25: a call of sendMcpMessage or sendLinkMcpMessage, or the waiter, that
\* registered a listener and no longer has it registered is settled: no
\* state has the listener removed and the promise pending, whatever payload
\* field the message that passed the filter had, or none.
C25_ListenerRemovedImpliesSettled ==
    /\ \A i \in DOMAIN calls :
          ("addEventListener" \in Range(calls[i].trace) /\ i \notin listeners)
              => Settled(calls[i])
    /\ ("addEventListener" \in Range(waiter.trace) /\ WaiterId \notin listeners)
          => Settled(waiter)

\* C26: post and listener registration are one step of the window: in every
\* state a call that has posted its envelope and processed no reply has its
\* listener registered, and so has the waiter; and every reply with the
\* call's messageId (every render-data push) dispatched in such a state, by
\* whichever frame, is taken by that call's (the waiter's) handler.
C26_NoLostReply ==
    [][/\ \A i \in DOMAIN calls' :
             ("postMessage" \in Range(calls'[i].trace) /\ ~Processed(calls'[i]))
                 => i \in listeners'
       /\ ("postMessage" \in Range(waiter'.trace) /\ ~Processed(waiter'))
             => WaiterId \in listeners'
       /\ posted' = posted =>
             /\ \A i \in DOMAIN calls :
                   ("postMessage" \in Range(calls[i].trace) /\ ~Processed(calls[i]))
                   => \A e \in {r \in OriginEvents : r.type = "ui-message-response"
                                                /\ r.messageId = i} :
                         calls'[i].reply = e \/ ~Dispatch(e)
             /\ ("postMessage" \in Range(waiter.trace) /\ ~Processed(waiter))
                   => \A e \in {r \in OriginEvents :
                                   r.type = "ui-lifecycle-iframe-render-data"} :
                         waiter'.reply = e \/ ~Dispatch(e)]_vars

\* a call took the reply dispatched right after its post, while another
\* call that has posted is listening
C26_Witness ==
    /\ Len(calls) = 2
    /\ calls[1].trace = <<"postMessage", "addEventListener",
                          "removeEventListener", "resolve">>
    /\ calls[1].reply.messageId = 1
    /\ calls[2].trace = <<"postMessage", "addEventListener">>
    /\ 2 \in listeners
    /\ waiter.status = "idle"

\* C27: the two listeners take disjoint message types.  The dispatch of a
\* 'ui-lifecycle-iframe-render-data' message leaves every Sender call and its
\* listener as they were, also when its messageId is the call's; the dispatch
\* of a 'ui-message-response' leaves the waiter and its listener as they
\* were, whatever its messageId and payload; so the message a call has taken
\* is a response and the one the waiter has taken is a render-data push.
C27_NoCrossTalk ==
    [][/\ \A i \in DOMAIN calls' :
             Processed(calls'[i]) => calls'[i].reply.type = "ui-message-response"
       /\ Processed(waiter')
             => waiter'.reply.type = "ui-lifecycle-iframe-render-data"
       /\ posted' = posted =>
             \A e \in OriginEvents :
                /\ e.type = "ui-lifecycle-iframe-render-data" =>
                      \/ \A i \in DOMAIN calls :
                            /\ calls'[i] = calls[i]
                            /\ i \in listeners <=> i \in listeners'
                      \/ ~Dispatch(e)
                /\ e.type = "ui-message-response" =>
                      \/ /\ waiter' = waiter
                         /\ WaiterId \in listeners <=> WaiterId \in listeners'
                      \/ ~Dispatch(e)]_vars

\* the call posted first and the waiter after it; a render-data push with
\* the call's messageId has settled the waiter, and the call is pending with
\* its listener
C27_Witness ==
    /\ Len(calls) = 1
    /\ Len(posted) = 2
    /\ posted[1].messageId = 1
    /\ posted[2].type = "ui-lifecycle-iframe-ready"
    /\ Settled(waiter)
    /\ waiter.reply.type = "ui-lifecycle-iframe-render-data"
    /\ waiter.reply.messageId = 1
    /\ calls[1].status = "pending"
    /\ calls[1].trace = <<"postMessage", "addEventListener">>
    /\ 1 \in listeners

\* the ready signals among the messages posted so far
ReadySignals ==
    {k \in DOMAIN posted : posted[k].type = "ui-lifecycle-iframe-ready"}

\* C28: in the entry viewer the ready signal is posted once while the loader
\* waits, by waitForRenderData before it has taken a push, and a second time
\* by useMcpUiInit once the promise has resolved and the content is mounted:
\* the first two messages posted, and no third.  From then on the waiter's
\* listener is not registered, and the dispatch of a render-data push
\* changes neither the waiter, nor a call, nor a listener, nor the route.
C28_TwoReadySignals ==
    [][surface.route = "entry-viewer" =>
          /\ Cardinality(ReadySignals) <= 2
          /\ (surface.phase = "loading" /\ ~Processed(waiter)) =>
                /\ ReadySignals = {1}
                /\ waiter.trace = <<"postMessage", "addEventListener">>
          /\ surface.initRuns >= 1 =>
                /\ waiter.status = "resolved"
                /\ ReadySignals = {1, 2}
                /\ WaiterId \notin listeners
                /\ waiter' = waiter
                /\ \A e \in {r \in SurfaceEvents :
                                r.type = "ui-lifecycle-iframe-render-data"} :
                      \/ /\ calls' = calls
                         /\ listeners' = listeners
                         /\ surface' = surface
                      \/ ~(/\ Dispatch(e)
                           /\ surface' = AfterSettle(surface, calls, calls'))]_vars

\* both ready signals are out, the content is shown with its delete call
\* pending, and the waiter's listener is gone: a push sent now reaches the
\* call's handler only
C28_Witness ==
    /\ surface.route = "entry-viewer"
    /\ surface.phase = "content"
    /\ surface.initRuns = 1
    /\ ReadySignals = {1, 2}
    /\ waiter.status = "resolved"
    /\ listeners = {1}
    /\ calls[1].status = "pending"

\* C30: waitForRenderData has no failure path of its own.  Called where
\* window.parent is the window itself it posts the ready signal, registers
\* its listener and stays pending; and in every execution a rejected waiter
\* has taken a render-data push and is rejected with the push's error or
\* with the validator's error.
C30_WaiterNoHostPath ==
    /\ (parent = "self" /\ waiter.status # "idle") =>
          /\ \E k \in DOMAIN posted : posted[k].type = "ui-lifecycle-iframe-ready"
          /\ Len(waiter.trace) >= 2
          /\ waiter.trace[1] = "postMessage"
          /\ waiter.trace[2] = "addEventListener"
          /\ ~Processed(waiter) =>
                (waiter.status = "pending" /\ WaiterId \in listeners)
    /\ waiter.status = "rejected" =>
          /\ Processed(waiter)
          /\ waiter.value \in {waiter.reply.payload.error, ZodError}

====
